---- MODULE Spec2Model ----
(***************************************************************************)
(* Model of the reconciliation engine (Reconciliationpublic_20250914.py):  *)
(* _load_df normalises and validates one uploaded table, and               *)
(* run_reconciliation loads two tables, outer-joins them on invoice_no,    *)
(* classifies the joined rows against a tolerance, builds the summary and  *)
(* makes a best-effort Excel export.                                       *)
(*                                                                         *)
(* Strings whose content the code inspects (column headers, keys, amount   *)
(* cells) are sequences of one-character strings, so that strip, lower,    *)
(* numeric parsing and lexicographic ordering are computed, not assumed.   *)
(***************************************************************************)
EXTENDS Integers, Sequences, FiniteSets, TLC

\* Total number of data rows over the two tables of one run.
MaxRows == 2

----------------------------------------------------------------------------
(* Characters and the string functions of the loader *)

\* The characters of the model in ASCII order: position = rank of the code point.
Alphabet ==
    << " ",
       "0", "1", "2", "3", "4", "5", "6", "7", "8", "9",
       "A", "B", "C", "D", "E", "F", "G", "H", "I", "J", "K", "L", "M",
       "N", "O", "P", "Q", "R", "S", "T", "U", "V", "W", "X", "Y", "Z",
       "_",
       "a", "b", "c", "d", "e", "f", "g", "h", "i", "j", "k", "l", "m",
       "n", "o", "p", "q", "r", "s", "t", "u", "v", "w", "x", "y", "z" >>

\* ord, as the rank in Alphabet
Ord == [c \in {Alphabet[i] : i \in DOMAIN Alphabet} |->
            CHOOSE i \in DOMAIN Alphabet : Alphabet[i] = c]

CodePoint(c) == Ord[c]

IsSpace(c) == c = " "

IsUpper(c) == CodePoint(c) \in 12..37

IsDigit(c) == CodePoint(c) \in 2..11

DigitVal(c) == CodePoint(c) - 2

\* str.lower on one character
LowerChar(c) == IF IsUpper(c) THEN Alphabet[CodePoint(c) + 27] ELSE c

\* str.lower
Lower(s) == [i \in DOMAIN s |-> LowerChar(s[i])]

RECURSIVE LStrip(_)
LStrip(s) == IF s # << >> /\ IsSpace(Head(s)) THEN LStrip(Tail(s)) ELSE s

RECURSIVE RStrip(_)
RStrip(s) ==
    IF s # << >> /\ IsSpace(s[Len(s)]) THEN RStrip(SubSeq(s, 1, Len(s) - 1)) ELSE s

\* str.strip
Strip(s) == RStrip(LStrip(s))

\* Python's ordering of str: lexicographic by code point
RECURSIVE StrLess(_, _)
StrLess(a, b) ==
    IF b = << >> THEN FALSE
    ELSE IF a = << >> THEN TRUE
    ELSE IF Head(a) # Head(b) THEN CodePoint(Head(a)) < CodePoint(Head(b))
    ELSE StrLess(Tail(a), Tail(b))

Range(s) == {s[i] : i \in DOMAIN s}

----------------------------------------------------------------------------
(* Program constants *)

KEY_COL == << "i", "n", "v", "o", "i", "c", "e", "_", "n", "o" >>

AMOUNT_COL == << "a", "m", "o", "u", "n", "t" >>

\* need = {KEY_COL, AMOUNT_COL}
Need == {KEY_COL, AMOUNT_COL}

\* The order in which the error message names the expected columns.
Expected == << KEY_COL, AMOUNT_COL >>

----------------------------------------------------------------------------
(* Cells and amounts *)

\* A missing cell (NaN / <NA>) as the readers deliver it.
NA == [null |-> TRUE, text |-> << >>]

Cell(s) == [null |-> FALSE, text |-> s]

\* A numeric amount: a number, or NaN.
NaN == [present |-> FALSE, val |-> 0]

Num(v) == [present |-> TRUE, val |-> v]

RECURSIVE ParseDigits(_, _)
ParseDigits(s, acc) ==
    IF s = << >> THEN acc ELSE ParseDigits(Tail(s), 10 * acc + DigitVal(Head(s)))

\* pd.to_numeric(..., errors="coerce") on one cell: a missing cell and a text
\* that is no number both become NaN.
ToNumeric(c) ==
    IF c.null THEN NaN
    ELSE IF c.text # << >> /\ \A i \in DOMAIN c.text : IsDigit(c.text[i])
         THEN Num(ParseDigits(c.text, 0))
    ELSE NaN

\* .astype("string").str.strip() on one cell: a missing cell stays missing.
StrStrip(c) == IF c.null THEN NA ELSE Cell(Strip(c.text))

----------------------------------------------------------------------------
(* _load_df: normalise and validate *)

\* _normalize_columns: trim every column name.
NormalizeColumns(cols) == [i \in DOMAIN cols |-> Strip(cols[i])]

\* missing = need - set(map(str.lower, df.columns))
MissingLower(cols) == Need \ {Lower(cols[i]) : i \in DOMAIN cols}

\* col_map_lower = {c.lower(): c for c in df.columns}: the last column wins.
ColMapLower(cols, want) ==
    LET last == CHOOSE i \in DOMAIN cols :
                    /\ Lower(cols[i]) = want
                    /\ \A j \in DOMAIN cols : Lower(cols[j]) = want => j <= i
    IN  cols[last]

\* The keys of col_map_lower.
InColMapLower(cols, want) == \E i \in DOMAIN cols : Lower(cols[i]) = want

\* fixed: the wanted names found under some casing.
FixedWants(cols) == {want \in Need : InColMapLower(cols, want)}

\* df.rename(columns=fixed)
Rename(cols) ==
    [i \in DOMAIN cols |->
        IF \E want \in FixedWants(cols) : ColMapLower(cols, want) = cols[i]
        THEN CHOOSE want \in FixedWants(cols) : ColMapLower(cols, want) = cols[i]
        ELSE cols[i]]

\* The columns of df when the validation is over (lines 74-82).
ValidatedColumns(cols) ==
    IF MissingLower(cols) # {} /\ FixedWants(cols) # {} THEN Rename(cols) ELSE cols

\* MissingAfter with the recheck after the rename left out: the rename is taken
\* to have supplied every required column.
MissingAfter_Mut(cols) ==
    IF MissingLower(cols) # {} /\ FixedWants(cols) # {} THEN {} ELSE MissingLower(cols)

\* The value of `missing` when the validation is over (lines 71-82).
MissingAfter(cols) ==
    IF MissingLower(cols) # {} /\ FixedWants(cols) # {}
    THEN Need \ Range(ValidatedColumns(cols))
    ELSE MissingLower(cols)

ColIndex(cols, name) == CHOOSE i \in DOMAIN cols : cols[i] = name

KeyNotNa(r) == ~r.invoice_no.null

\* df.dropna(subset=[KEY_COL])
DropNa(rows) == SelectSeq(rows, KeyNotNa)

\* Lines 92-98 on the rows: the key as a stripped string, the amount as a number,
\* the rows without a key dropped. The result keeps the two columns
\* run_reconciliation reads.
LoadRows(cols, rows) ==
    LET k    == ColIndex(cols, KEY_COL)
        a    == ColIndex(cols, AMOUNT_COL)
        norm == [i \in DOMAIN rows |->
                    [invoice_no |-> StrStrip(rows[i][k]),
                     amount     |-> ToNumeric(rows[i][a])]]
        kept == DropNa(norm)
    IN  [i \in DOMAIN kept |->
            [invoice_no |-> kept[i].invoice_no.text, amount |-> kept[i].amount]]

\* The exception _load_df ends with for a table with these headers, "none" when
\* it returns: ValueError from the validation (line 85), KeyError from
\* df[KEY_COL] (line 92) or df[AMOUNT_COL] (line 95).
LoadError(columns) ==
    LET cols == ValidatedColumns(NormalizeColumns(columns))
    IN  IF MissingAfter(NormalizeColumns(columns)) # {} THEN "ValueError"
        ELSE IF KEY_COL \notin Range(cols) \/ AMOUNT_COL \notin Range(cols)
             THEN "KeyError"
        ELSE "none"

\* Lines 67-89 on the header row: the exception, and what the ValueError carries.
Validate(columns) ==
    LET cols0 == NormalizeColumns(columns)
        error == LoadError(columns)
    IN  [error    |-> error,
         cols     |-> ValidatedColumns(cols0),
         missing  |-> IF error = "ValueError" THEN MissingAfter(cols0) ELSE {},
         actual   |-> IF error = "ValueError" THEN ValidatedColumns(cols0) ELSE << >>,
         expected |-> IF error = "ValueError" THEN Expected ELSE << >>]

\* The outcome of _load_df given the outcome v of the validation.
Loaded(v, rows, label) ==
    [error    |-> v.error,
     label    |-> label,
     missing  |-> v.missing,
     actual   |-> v.actual,
     expected |-> v.expected,
     df       |-> IF v.error = "none" THEN LoadRows(v.cols, rows) ELSE << >>]

\* _load_df(file_like, label): the exception raised, or the normalised table.
LoadDf(file, label) == Loaded(Validate(file.columns), file.rows, label)

\* The exception object that leaves run_reconciliation.
Raised(res) ==
    [type |-> res.error, label |-> res.label, missing |-> res.missing,
     actual |-> res.actual, expected |-> res.expected]

----------------------------------------------------------------------------
(* run_reconciliation: merge, classify, summarise *)

Keys(df) == {df[i].invoice_no : i \in DOMAIN df}

RowsOf(df, k) ==
    LET HasKey(r) == r.invoice_no = k
    IN  SelectSeq(df, HasKey)

\* The keys of an outer merge come out in lexicographic order.
RECURSIVE SortKeys(_)
SortKeys(S) ==
    IF S = {} THEN << >>
    ELSE LET m == CHOOSE k \in S : \A o \in S \ {k} : StrLess(k, o)
         IN  << m >> \o SortKeys(S \ {m})

\* The joined rows of one key: the cross product of its source and target rows,
\* source-major, or its rows of the one side it occurs on.
JoinKey(s1, s2, k) ==
    LET l == RowsOf(s1, k)
        r == RowsOf(s2, k)
    IN  IF r = << >>
        THEN [i \in DOMAIN l |->
                [invoice_no |-> k, amount_src |-> l[i].amount,
                 amount_tgt |-> NaN, _merge |-> "left_only"]]
        ELSE IF l = << >>
        THEN [j \in DOMAIN r |->
                [invoice_no |-> k, amount_src |-> NaN,
                 amount_tgt |-> r[j].amount, _merge |-> "right_only"]]
        ELSE [p \in 1..(Len(l) * Len(r)) |->
                [invoice_no |-> k,
                 amount_src |-> l[((p - 1) \div Len(r)) + 1].amount,
                 amount_tgt |-> r[((p - 1) % Len(r)) + 1].amount,
                 _merge     |-> "both"]]

RECURSIVE JoinKeys(_, _, _)
JoinKeys(s1, s2, keys) ==
    IF keys = << >> THEN << >>
    ELSE JoinKey(s1, s2, Head(keys)) \o JoinKeys(s1, s2, Tail(keys))

\* pd.merge(s1, s2, on=KEY_COL, how="outer", suffixes=("_src", "_tgt"), indicator=True)
Merge(s1, s2) == JoinKeys(s1, s2, SortKeys(Keys(s1) \cup Keys(s2)))

Abs(x) == IF x < 0 THEN -x ELSE x

\* diff = (amount_src - amount_tgt).abs(): NaN when either amount is NaN.
Diff(row) ==
    IF row.amount_src.present /\ row.amount_tgt.present
    THEN Num(Abs(row.amount_src.val - row.amount_tgt.val))
    ELSE NaN

\* LeTol with the comparison turned round.
LeTol_Mut(d, tol) == d.present /\ d.val >= tol

\* diff <= tolerance and diff > tolerance: a comparison with NaN is False.
LeTol(d, tol) == d.present /\ d.val <= tol

GtTol(d, tol) == d.present /\ d.val > tol

\* both & (diff <= tolerance)
IsMatch(row, tol) == row._merge = "both" /\ LeTol(Diff(row), tol)

\* both & (diff > tolerance)
IsMismatch(row, tol) == row._merge = "both" /\ GtTol(Diff(row), tol)

Matches(m, tol) ==
    LET Keep(row) == IsMatch(row, tol)
    IN  SelectSeq(m, Keep)

Mismatches(m, tol) ==
    LET Keep(row) == IsMismatch(row, tol)
    IN  SelectSeq(m, Keep)

IsLeftOnly(row) == row._merge = "left_only"

IsRightOnly(row) == row._merge = "right_only"

\* merged[left_only][[KEY_COL, amount_src]] renamed to amount
Missing(m) ==
    LET sel == SelectSeq(m, IsLeftOnly)
    IN  [i \in DOMAIN sel |->
            [invoice_no |-> sel[i].invoice_no, amount |-> sel[i].amount_src]]

\* Extra reading the source amount column, as Missing does.
Extra_Mut(m) ==
    LET sel == SelectSeq(m, IsRightOnly)
    IN  [i \in DOMAIN sel |->
            [invoice_no |-> sel[i].invoice_no, amount |-> sel[i].amount_src]]

\* merged[right_only][[KEY_COL, amount_tgt]] renamed to amount
Extra(m) ==
    LET sel == SelectSeq(m, IsRightOnly)
    IN  [i \in DOMAIN sel |->
            [invoice_no |-> sel[i].invoice_no, amount |-> sel[i].amount_tgt]]

\* NUnique counting rows instead of distinct keys.
NUnique_Mut(df) == Len(df)

\* df[KEY_COL].nunique()
NUnique(df) == Cardinality(Keys(df))

\* The summary dict of lines 178-188.
Summary(d1, d2, tol, ma, mi, ms, ex) ==
    [key_column        |-> KEY_COL,
     amount_column     |-> AMOUNT_COL,
     tolerance         |-> tol,
     matches           |-> Len(ma),
     mismatches        |-> Len(mi),
     missing_in_target |-> Len(ms),
     extra_in_target   |-> Len(ex),
     total_keys_source |-> NUnique(d1),
     total_keys_target |-> NUnique(d2)]

\* AfterExport without the except clause: the failure leaves the function.
AfterExport_Mut(ok) == IF ok THEN "returned" ELSE "raised"

\* What run_reconciliation does after the export: the except clause swallows a
\* failure, so the function returns either way.
AfterExport(ok) == "returned"

----------------------------------------------------------------------------
(* Inputs *)

\* Header rows of an uploaded table, key column first.
Invoice_No == << "I", "n", "v", "o", "i", "c", "e", "_", "N", "o" >>

PaddedKey == << " " >> \o KEY_COL \o << " " >>

PaddedAmount == AMOUNT_COL \o << " " >>

Qty == << "q", "t", "y" >>

Headers ==
    { << KEY_COL, AMOUNT_COL >>,        \* canonical
      << PaddedKey, PaddedAmount >>,    \* surrounding whitespace
      << Invoice_No, AMOUNT_COL >>,     \* other letter case
      << Invoice_No, Qty >>,            \* other letter case, no amount column
      << Qty, AMOUNT_COL >> }           \* no key column

\* Key cells: missing, whitespace only, and two keys, one with a leading blank.
RawKeys == { NA, Cell(<< " " >>), Cell(<< "A" >>), Cell(<< " ", "B" >>) }

\* Amount cells: missing, "10", "20" and the unparseable "abc".
RawAmounts ==
    { NA, Cell(<< "1", "0" >>), Cell(<< "2", "0" >>), Cell(<< "a", "b", "c" >>) }

RawRows == RawKeys \X RawAmounts

Tolerances == {-1, 0, 10}

----------------------------------------------------------------------------
(* State *)

VARIABLES
    pc,          \* position in run_reconciliation
    tolerance,   \* parameter
    debug,       \* parameter
    columns,     \* the header row of the table the last _load_df call read
    df1, df2,    \* the normalised source and target tables
    merged,      \* the outer join
    matches, mismatches, missing, extra,   \* the four result tables
    summary,     \* << >> until built, then << the summary dict >>
    err,         \* << >>, or << the exception that left run_reconciliation >>
    debug_log,
    report       \* whether the Excel report was written

vars == << pc, tolerance, debug, columns, df1, df2, merged, matches, mismatches,
           missing, extra, summary, err, debug_log, report >>

\* The call is entered: lines 136-138.
Init ==
    /\ pc = "start"
    /\ tolerance \in Tolerances
    /\ debug \in BOOLEAN
    /\ columns = << >>
    /\ df1 = << >>
    /\ df2 = << >>
    /\ merged = << >>
    /\ matches = << >>
    /\ mismatches = << >>
    /\ missing = << >>
    /\ extra = << >>
    /\ summary = << >>
    /\ err = << >>
    /\ debug_log = IF debug THEN << "engine.start" >> ELSE << >>
    /\ report = FALSE

\* The validation of each header row of the model, computed once.
Validation == [hdr \in Headers |-> Validate(hdr)]

\* The row counts of the tables with a header row whose validation ended in v:
\* the rows of a table that fails the validation are never looked at.
RowCounts(v, n) == IF v.error = "none" THEN 0..n ELSE {0}

\* Line 141: df1 = _load_df(file1, "Source", debug_log)
LoadSource ==
    /\ pc = "start"
    /\ \E hdr \in Headers :
        LET v == Validation[hdr]
        IN  \E k \in RowCounts(v, MaxRows) : \E rows \in [1..k -> RawRows] :
            LET res == Loaded(v, rows, "Source")
            IN  /\ columns' = hdr
                /\ debug_log' = Append(debug_log, "Source.reading")
                /\ IF res.error = "none"
                   THEN /\ df1' = res.df
                        /\ pc' = "source_loaded"
                        /\ err' = err
                   ELSE /\ df1' = df1
                        /\ pc' = "raised"
                        /\ err' = << Raised(res) >>
    /\ UNCHANGED << tolerance, debug, df2, merged, matches, mismatches, missing,
                    extra, summary, report >>

\* Line 142: df2 = _load_df(file2, "Target", debug_log)
LoadTarget ==
    /\ pc = "source_loaded"
    /\ \E hdr \in Headers :
        LET v == Validation[hdr]
        IN  \E k \in RowCounts(v, MaxRows - Len(df1)) : \E rows \in [1..k -> RawRows] :
            LET res == Loaded(v, rows, "Target")
            IN  /\ columns' = hdr
                /\ debug_log' = Append(debug_log, "Target.reading")
                /\ IF res.error = "none"
                   THEN /\ df2' = res.df
                        /\ pc' = "target_loaded"
                        /\ err' = err
                   ELSE /\ df2' = df2
                        /\ pc' = "raised"
                        /\ err' = << Raised(res) >>
    /\ UNCHANGED << tolerance, debug, df1, merged, matches, mismatches, missing,
                    extra, summary, report >>

\* Lines 144-192: merge, classify, build the summary.
Reconcile ==
    /\ pc = "target_loaded"
    /\ merged' = Merge(df1, df2)
    /\ matches' = Matches(merged', tolerance)
    /\ mismatches' = Mismatches(merged', tolerance)
    /\ missing' = Missing(merged')
    /\ extra' = Extra(merged')
    /\ summary' = << Summary(df1, df2, tolerance, matches', mismatches',
                             missing', extra') >>
    /\ debug_log' = IF debug
                    THEN debug_log \o << "Source.shape", "Target.shape",
                                         "engine.matches", "engine.missing" >>
                    ELSE debug_log
    /\ pc' = "reconciled"
    /\ UNCHANGED << tolerance, debug, columns, df1, df2, err, report >>

\* Lines 194-208: the export succeeds or fails; a failure is swallowed.
Export ==
    /\ pc = "reconciled"
    /\ \E ok \in BOOLEAN :
        /\ report' = ok
        /\ debug_log' = IF ~ok /\ debug
                        THEN Append(debug_log, "excel.skipped")
                        ELSE debug_log
        /\ pc' = AfterExport(ok)
        /\ err' = IF AfterExport(ok) = "raised"
                  THEN << [type |-> "Exception", label |-> "excel", missing |-> {},
                           actual |-> << >>, expected |-> << >>] >>
                  ELSE err
    /\ UNCHANGED << tolerance, debug, columns, df1, df2, merged, matches,
                    mismatches, missing, extra, summary >>

Next == LoadSource \/ LoadTarget \/ Reconcile \/ Export

Spec == Init /\ [][Next]_vars

----------------------------------------------------------------------------
(* Properties *)

\* The required columns are all present among the headers once these are
\* trimmed and compared without regard to letter case.
HasAll(cols) ==
    \A want \in Need : \E i \in DOMAIN cols : Lower(Strip(cols[i])) = want

\* The rows of the four result tables.
OutputKeys ==
    {matches[i].invoice_no : i \in DOMAIN matches}
        \cup {mismatches[i].invoice_no : i \in DOMAIN mismatches}
        \cup {missing[i].invoice_no : i \in DOMAIN missing}
        \cup {extra[i].invoice_no : i \in DOMAIN extra}

\* The number of indices of a sequence that satisfy a test.
CountRows(m, Test(_)) == Cardinality({i \in DOMAIN m : Test(m[i])})

\* C1: the four returned tables partition the outer join: their row counts sum
\* to the number of joined rows, and every joined row present on both sides is
\* in matches or in mismatches.
C1_Partition ==
    pc = "returned" =>
        /\ Len(matches) + Len(mismatches) + Len(missing) + Len(extra) = Len(merged)
        /\ \A i \in DOMAIN merged :
              merged[i]._merge = "both" =>
                  merged[i] \in Range(matches) \cup Range(mismatches)

\* C2: a joined row present on both sides whose source or target amount is
\* null is in the mismatches table and not in the matches table, whatever the
\* tolerance.
C2_NullAmountIsMismatch ==
    pc = "returned" =>
        \A i \in DOMAIN merged :
            ( /\ merged[i]._merge = "both"
              /\ ~(merged[i].amount_src.present /\ merged[i].amount_tgt.present) )
            => /\ merged[i] \in Range(mismatches)
               /\ merged[i] \notin Range(matches)

\* C3: a table whose headers hold the required columns up to letter case and
\* surrounding whitespace loads: the load does not end in an exception.
C3_CaseInsensitiveHeaderLoads ==
    (columns # << >> /\ HasAll(columns)) => pc # "raised"

\* C4: a table that lacks a required column, even after trimming and
\* case-insensitive matching, fails to load with the schema error (the
\* ValueError of the validation), which names the expected columns and the
\* table's actual columns and leaves run_reconciliation with no summary and no
\* result table.
C4_AbsentColumnSchemaError ==
    (columns # << >> /\ ~HasAll(columns)) =>
        /\ pc = "raised"
        /\ Len(err) = 1
        /\ err[1].type = "ValueError"
        /\ err[1].expected = << KEY_COL, AMOUNT_COL >>
        /\ Len(err[1].actual) = Len(columns)
        /\ \A i \in DOMAIN columns :
              Lower(err[1].actual[i]) = Lower(Strip(columns[i]))
        /\ err[1].missing = {want \in Need : want \notin Range(err[1].actual)}
        /\ err[1].missing # {}
        /\ summary = << >>
        /\ matches = << >> /\ mismatches = << >>
        /\ missing = << >> /\ extra = << >>

\* C4 witness: the target table, read after a good source table, has its key
\* column under another letter case and no amount column, and the call has
\* ended in the error.
C4_Witness ==
    /\ pc = "raised"
    /\ columns = << Invoice_No, Qty >>
    /\ err[1].label = "Target"
    /\ Len(df1) > 0

\* C5: no row of the four returned tables has a blank key.
C5_NoBlankKey ==
    pc = "returned" => \A k \in OutputKeys : Strip(k) # << >>

\* C6: every row matched at the tolerance of the run is matched at every
\* larger tolerance, so the count of matches does not decrease.
C6_ToleranceMonotone ==
    pc = "returned" =>
        \A t2 \in Tolerances :
            tolerance <= t2 =>
                /\ \A i \in DOMAIN matches :
                      matches[i] \in Range(Matches(merged, t2))
                /\ Len(matches) <= Len(Matches(merged, t2))

\* C6 witness: a run at a tolerance below the largest one returned a match.
C6_Witness ==
    /\ pc = "returned"
    /\ matches # << >>
    /\ \E t2 \in Tolerances : tolerance < t2

\* C7: the missing_in_target table of source against target is the
\* extra_in_target table of target against source, and the extra_in_target
\* table of source against target is the missing_in_target table of target
\* against source.
C7_MissingExtraSymmetry ==
    pc = "returned" =>
        /\ missing = Extra(Merge(df2, df1))
        /\ extra = Missing(Merge(df2, df1))

\* C7 witness: a run returned rows both in missing_in_target and in
\* extra_in_target.
C7_Witness ==
    /\ pc = "returned"
    /\ missing # << >>
    /\ extra # << >>

\* C8: the step after the results are built, the export, always ends with the
\* call returned, no exception, and the summary and the four tables as they
\* were, whether the export wrote the report or failed.
C8_ExportBestEffort ==
    [][pc = "reconciled" =>
          /\ pc' = "returned"
          /\ err' = << >>
          /\ UNCHANGED << summary, matches, mismatches, missing, extra >>]_vars

\* C8 witness: the export failed and the call returned its results.
C8_Witness ==
    /\ pc = "returned"
    /\ ~report
    /\ summary # << >>
    /\ merged # << >>

\* C9: a key with n source rows and m target rows has n*m joined rows, each of
\* them in matches or in mismatches and not in both.
C9_CrossProduct ==
    pc = "returned" =>
        \A k \in Keys(df1) \cap Keys(df2) :
            LET IsK(row) == row.invoice_no = k
            IN  /\ CountRows(merged, IsK) = Len(RowsOf(df1, k)) * Len(RowsOf(df2, k))
                /\ CountRows(matches, IsK) + CountRows(mismatches, IsK)
                       = Len(RowsOf(df1, k)) * Len(RowsOf(df2, k))

\* The part of C9 about the join alone: n*m joined rows for a key on both sides.
CrossProductCount ==
    pc = "returned" =>
        \A k \in Keys(df1) \cap Keys(df2) :
            LET IsK(row) == row.invoice_no = k
            IN  CountRows(merged, IsK) = Len(RowsOf(df1, k)) * Len(RowsOf(df2, k))

\* C10: the counts of the summary are the row counts of the four returned
\* tables, and total_keys_source and total_keys_target are the numbers of
\* distinct keys of the normalised tables.
C10_SummaryCounts ==
    pc = "returned" =>
        /\ Len(summary) = 1
        /\ summary[1].matches = Len(matches)
        /\ summary[1].mismatches = Len(mismatches)
        /\ summary[1].missing_in_target = Len(missing)
        /\ summary[1].extra_in_target = Len(extra)
        /\ summary[1].total_keys_source
               = Cardinality({df1[i].invoice_no : i \in DOMAIN df1})
        /\ summary[1].total_keys_target
               = Cardinality({df2[i].invoice_no : i \in DOMAIN df2})

\* C10 witness: the returned summary counts fewer source keys than the source
\* table has rows.
C10_Witness ==
    /\ pc = "returned"
    /\ summary[1].total_keys_source < Len(df1)

====
